---- MODULE Spec2Model ----
(***************************************************************************)
(* Model of target_mongodb/sinks.py: MongoDbSink.process_batch.            *)
(*                                                                         *)
(* One stream (one sink, one destination collection).  The caller holds a  *)
(* list of record objects (heap); context["records"] refers to them.       *)
(* process_batch is modelled statement group by statement group, with pc   *)
(* the position inside it.  The collection is a set of documents; the      *)
(* driver calls the code makes (ObjectId, UpdateOne with upsert,           *)
(* bulk_write(ordered=False), insert_many) are modelled by what they do.   *)
(***************************************************************************)
EXTENDS Integers, Sequences, FiniteSets, TLC

\* ---------------------------------------------------------------- bounds
MaxBatch == 2      \* longest batch the caller hands over
MaxFlushes == 2    \* calls of process_batch on the same record objects

\* ---------------------------------------------------------------- values
\* A value is [t |-> type tag, v |-> sequence of characters].
Null == [t |-> "null", v |-> <<>>]
StrVal(s) == [t |-> "str", v |-> s]
IntVal(s) == [t |-> "int", v |-> s]
OidVal(s) == [t |-> "oid", v |-> s]

OidHexLen == 24

HexDigits ==
  {"0","1","2","3","4","5","6","7","8","9",
   "a","b","c","d","e","f","A","B","C","D","E","F"}

Lower(c) ==
  CASE c = "A" -> "a" [] c = "B" -> "b" [] c = "C" -> "c"
    [] c = "D" -> "d" [] c = "E" -> "e" [] c = "F" -> "f"
    [] OTHER -> c

HexChar(k) ==
  <<"0","1","2","3","4","5","6","7","8","9","a","b","c","d","e","f">>[k + 1]

\* The n-th identifier generated by ObjectId() (client or server side):
\* 24 hex characters, distinct for distinct n, distinct from the inputs.
GenOid(n) ==
  OidVal([i \in 1..OidHexLen |->
        IF i = OidHexLen THEN HexChar(n % 16)
        ELSE IF i = OidHexLen - 1 THEN HexChar((n \div 16) % 16)
        ELSE "0"])

\* ObjectId(find_id) at line 64: does the constructor raise?
\* None generates a new identifier, an ObjectId is copied, a str must be 24
\* hex characters (InvalidId otherwise), any other type is a TypeError.
ObjectIdError(val) ==
  CASE val.t = "null" -> "none"
    [] val.t = "oid" -> "none"
    [] val.t = "str" ->
         IF Len(val.v) = OidHexLen /\ \A i \in 1..Len(val.v) : val.v[i] \in HexDigits
         THEN "none" ELSE "InvalidId"
    [] OTHER -> "TypeError"

\* ObjectId(find_id) at line 64: the value built when it does not raise.
ObjectId(val, n) ==
  CASE val.t = "null" -> GenOid(n)
    [] val.t = "oid" -> val
    [] OTHER -> OidVal([i \in 1..Len(val.v) |-> Lower(val.v[i])])

\* ------------------------------------------------------- records (dicts)
\* A record or document is a function from the field names it carries to values.
Get(r, f) == IF f \in DOMAIN r THEN r[f] ELSE Null
Pop(r, f) == [g \in DOMAIN r \ {f} |-> r[g]]
Merge(d, u) == [f \in DOMAIN d \cup DOMAIN u |-> IF f \in DOMAIN u THEN u[f] ELSE d[f]]

GoodHex1 ==
  <<"5","0","7","f","1","f","7","7","b","c","f","8","6","c","d","7","9","9","4","3","9","0","1","1">>
GoodHex2 ==
  <<"5","0","7","F","1","F","7","7","B","C","F","8","6","C","D","7","9","9","4","3","9","0","1","2">>
NotAnId == <<"n","o","t","-","a","n","-","i","d">>
A1 == StrVal(<<"A","1">>)
B2 == StrVal(<<"B","2">>)
Ten == IntVal(<<"1","0">>)
Twelve == IntVal(<<"1","2">>)

\* The records the upstream source may deliver.
RecordPool ==
  { [_id |-> StrVal(GoodHex1), sku |-> A1, price |-> Ten],
    [_id |-> StrVal(GoodHex2), sku |-> A1, price |-> Twelve],
    [sku |-> A1, price |-> Ten],
    [sku |-> A1, price |-> Twelve],
    [_id |-> StrVal(NotAnId), sku |-> B2, price |-> Ten],
    [_id |-> Null, sku |-> B2, price |-> Twelve],
    [_id |-> IntVal(<<"4","2">>), price |-> Twelve],
    [_id |-> StrVal(GoodHex1), sku |-> B2, price |-> Twelve],
    [price |-> Ten] }

Batches == UNION {[1..n -> RecordPool] : n \in 0..MaxBatch}

KeyConfigs == {<<>>, <<"sku">>, <<"_id">>}

Perms(n) == {p \in [1..n -> 1..n] : \A i, j \in 1..n : i # j => p[i] # p[j]}


\* ------------------------------------------------------------- the state
VARIABLES
  key_properties,   \* self.key_properties of the stream
  heap,             \* the record objects (dicts) the caller holds
  heap0,            \* the records as the source delivered them
  context_records,  \* context["records"]: references into heap
  pc,               \* position: idle, map, insert, log, done, raised, closed
  idx,              \* position of the for loop of line 58
  bulk_operations,  \* the UpdateOne operations built so far
  skips,            \* the "Malformed id" warnings logged so far
  store,            \* the documents of db[collection_name]
  oid_counter,      \* identifiers generated so far
  open_clients,     \* MongoClient objects created and not closed
  backend_calls,    \* bulk_write / insert_many requests sent in this flush
  attempted,        \* operations the backend executed in this flush
  write_errors,     \* operations the backend reported as failed
  applied,          \* operations that took effect, in execution order
  result,           \* the counts logged at line 83
  error,            \* the exception that left process_batch, or "none"
  flushes,          \* calls of process_batch so far
  completed,        \* calls of process_batch that returned normally
  prev_store        \* the documents of the collection when the call began

vars ==
  <<key_properties, heap, heap0, context_records, pc, idx, bulk_operations,
    skips, store, oid_counter, open_clients, backend_calls, attempted,
    write_errors, applied, result, error, flushes, completed, prev_store>>

ZeroResult == [updated |-> 0, upserted |-> 0]

Init ==
  /\ key_properties \in KeyConfigs
  /\ heap \in Batches
  /\ heap0 = heap
  /\ context_records = [i \in 1..Len(heap) |-> i]
  /\ pc = "idle"
  /\ idx = 1
  /\ bulk_operations = <<>>
  /\ skips = <<>>
  /\ store = {}
  /\ oid_counter = 0
  /\ open_clients = 0
  /\ backend_calls = 0
  /\ attempted = 0
  /\ write_errors = <<>>
  /\ applied = <<>>
  /\ result = ZeroResult
  /\ error = "none"
  /\ flushes = 0
  /\ completed = 0
  /\ prev_store = {}

\* ----------------------------------------------------------- the backend
\* A filter {field: val}: null matches a missing field as well.
Matches(d, field, val) ==
  IF val = Null THEN field \notin DOMAIN d \/ d[field] = Null
  ELSE field \in DOMAIN d /\ d[field] = val

Fail(st, src) ==
  [st EXCEPT !.attempted = @ + 1, !.errors = Append(@, src)]

\* Line 73 with a plain insert in place of the upsert: never matches.
ApplyUpdateOne_AsInsert(st, op) ==
  LET base == Merge((op.field :> op.find_id), op.set)
      nd == IF "_id" \in DOMAIN base THEN base
            ELSE Merge(base, ("_id" :> GenOid(st.ctr)))
  IN IF \E d \in st.store : d["_id"] = nd["_id"] THEN Fail(st, op.src)
     ELSE [st EXCEPT !.store = @ \cup {nd},
                     !.ctr = @ + 1,
                     !.upserted = @ + 1,
                     !.attempted = @ + 1,
                     !.applied = Append(@, op.src)]

\* UpdateOne({field: find_id}, {"$set": set}, upsert=True) on the collection.
\* A match is updated in place (its _id cannot change); without a match a
\* document is created from the filter and the $set fields, with a
\* generated _id when neither gives one (an existing _id is a duplicate).
ApplyUpdateOne(st, op) ==
  LET hits == {d \in st.store : Matches(d, op.field, op.find_id)} IN
  IF hits # {}
  THEN LET d == CHOOSE x \in hits : TRUE
           nd == Merge(d, op.set)
       IN IF nd["_id"] # d["_id"] THEN Fail(st, op.src)
          ELSE [st EXCEPT !.store = (@ \ {d}) \cup {nd},
                          !.modified = @ + (IF nd # d THEN 1 ELSE 0),
                          !.attempted = @ + 1,
                          !.applied = Append(@, op.src)]
  ELSE LET base == Merge((op.field :> op.find_id), op.set)
           gen == "_id" \notin DOMAIN base
           nd == IF gen THEN Merge(base, ("_id" :> GenOid(st.ctr))) ELSE base
       IN IF \E d \in st.store : d["_id"] = nd["_id"] THEN Fail(st, op.src)
          ELSE [st EXCEPT !.store = @ \cup {nd},
                          !.ctr = @ + (IF gen THEN 1 ELSE 0),
                          !.upserted = @ + 1,
                          !.attempted = @ + 1,
                          !.applied = Append(@, op.src)]

\* One insert of insert_many: a duplicate _id is a write error.
ApplyInsert(st, doc, src) ==
  IF \E d \in st.store : d["_id"] = doc["_id"] THEN Fail(st, src)
  ELSE [st EXCEPT !.store = @ \cup {doc},
                  !.attempted = @ + 1,
                  !.applied = Append(@, src)]

BackendState ==
  [store |-> store, ctr |-> oid_counter, modified |-> 0, upserted |-> 0,
   attempted |-> 0, errors |-> <<>>, applied |-> <<>>]

\* bulk_write(ops, ordered=False): every operation is executed, in an order
\* the server chooses (order), whatever the outcome of the others.
RECURSIVE ExecUnordered(_, _, _, _)
ExecUnordered(ops, order, k, st) ==
  IF k > Len(order) THEN st
  ELSE ExecUnordered(ops, order, k + 1, ApplyUpdateOne(st, ops[order[k]]))

\* The order of execution the server may choose for n unordered operations.
ExecOrders(n) == Perms(n)

\* insert_many(documents) gives every document without _id a new ObjectId,
\* writing it into the caller's dict.
RECURSIVE AssignIds(_, _, _, _)
AssignIds(h, refs, k, ctr) ==
  IF k > Len(refs) THEN [heap |-> h, ctr |-> ctr]
  ELSE IF "_id" \in DOMAIN h[refs[k]] THEN AssignIds(h, refs, k + 1, ctr)
  ELSE AssignIds([h EXCEPT ![refs[k]] = Merge(@, ("_id" :> GenOid(ctr)))],
                 refs, k + 1, ctr + 1)

\* insert_many(documents) with its default ordered=True: the documents are
\* inserted in list order and the first write error stops the execution.
RECURSIVE ExecOrdered(_, _, _, _)
ExecOrdered(h, refs, k, st) ==
  IF k > Len(refs) \/ st.errors # <<>> THEN st
  ELSE ExecOrdered(h, refs, k + 1, ApplyInsert(st, h[refs[k]], refs[k]))


\* ----------------------------------------------------------- the actions
\* Lines 18-56: the caller invokes process_batch; a MongoClient is created
\* and the branch on key_properties is taken.
Connect ==
  /\ pc = "idle"
  /\ open_clients' = open_clients + 1
  /\ flushes' = flushes + 1
  /\ idx' = 1
  /\ bulk_operations' = <<>>
  /\ skips' = <<>>
  /\ backend_calls' = 0
  /\ attempted' = 0
  /\ write_errors' = <<>>
  /\ applied' = <<>>
  /\ result' = ZeroResult
  /\ error' = "none"
  /\ pc' = IF Len(key_properties) > 0 THEN "map" ELSE "insert"
  /\ prev_store' = store
  /\ UNCHANGED <<key_properties, heap, heap0, context_records, store,
                 oid_counter, completed>>

\* Lines 62-67 without the conversion check: no record is ever skipped.
SkipError_NoCheck(primary_id, find_id) == "none"

\* Lines 59-67: the outcome of the key handling for one record: the
\* exception ObjectId raised ("none" when the record is not skipped).
SkipError(primary_id, find_id) ==
  IF primary_id = "_id" THEN ObjectIdError(find_id) ELSE "none"

\* Lines 62-69: the filter value of the operation.
FilterValue(primary_id, find_id, ctr) ==
  IF primary_id = "_id" THEN ObjectId(find_id, ctr) ELSE find_id

\* Line 69: the record after the key handling (the dict is changed in place).
Payload(primary_id, record) ==
  IF primary_id = "_id" THEN Pop(record, "_id") ELSE record

\* Line 66 without the warning: the record is dropped silently.
Warn_Silent(log, ref, find_id, err) == log

\* Line 66: the warning logged for a skipped record.
Warn(log, ref, find_id, err) ==
  Append(log, [src |-> ref, value |-> find_id, error |-> err])

\* Lines 58-78: one iteration of the loop over the records.
MapRecord ==
  /\ pc = "map"
  /\ idx <= Len(context_records)
  /\ LET primary_id == key_properties[1]
         ref == context_records[idx]
         record == heap[ref]
         find_id == Get(record, primary_id)
         err == SkipError(primary_id, find_id)
     IN IF err # "none"
        THEN /\ skips' = Warn(skips, ref, find_id, err)
             /\ UNCHANGED <<heap, bulk_operations, oid_counter>>
        ELSE /\ heap' = [heap EXCEPT ![ref] = Payload(primary_id, record)]
             /\ bulk_operations' =
                  Append(bulk_operations,
                         [src |-> ref, field |-> primary_id,
                          find_id |-> FilterValue(primary_id, find_id, oid_counter),
                          set |-> Payload(primary_id, record)])
             /\ oid_counter' =
                  IF primary_id = "_id" /\ find_id.t = "null"
                  THEN oid_counter + 1 ELSE oid_counter
             /\ UNCHANGED skips
  /\ idx' = idx + 1
  /\ UNCHANGED <<key_properties, heap0, context_records, pc, store, open_clients,
                 backend_calls, attempted, write_errors, applied, result,
                 error, flushes, completed, prev_store>>

\* Lines 80-85: after the loop, the operations are sent as one unordered
\* bulk write, unless there is none.  bulk_write raises BulkWriteError when
\* the server reported a write error; the counts are logged otherwise.
BulkWrite ==
  /\ pc = "map"
  /\ idx > Len(context_records)
  /\ IF bulk_operations = <<>>
     THEN /\ pc' = "log"
          /\ UNCHANGED <<store, oid_counter, backend_calls, attempted,
                         write_errors, applied, result, error>>
     ELSE \E order \in ExecOrders(Len(bulk_operations)) :
            LET st == ExecUnordered(bulk_operations, order, 1, BackendState) IN
            /\ store' = st.store
            /\ oid_counter' = st.ctr
            /\ backend_calls' = backend_calls + 1
            /\ attempted' = st.attempted
            /\ write_errors' = st.errors
            /\ applied' = st.applied
            /\ IF st.errors # <<>>
               THEN /\ pc' = "raised"
                    /\ error' = "BulkWriteError"
                    /\ UNCHANGED result
               ELSE /\ pc' = "log"
                    /\ result' = [updated |-> st.modified, upserted |-> st.upserted]
                    /\ UNCHANGED error
  /\ UNCHANGED <<key_properties, heap, heap0, context_records, idx,
                 bulk_operations, skips, open_clients, flushes, completed,
                 prev_store>>

\* Line 88: without a key the records are handed to insert_many, which
\* raises TypeError for an empty list and BulkWriteError on a write error.
InsertMany ==
  /\ pc = "insert"
  /\ IF context_records = <<>>
     THEN /\ pc' = "raised"
          /\ error' = "TypeError"
          /\ UNCHANGED <<heap, store, oid_counter, backend_calls, attempted,
                         write_errors, applied>>
     ELSE LET a == AssignIds(heap, context_records, 1, oid_counter)
              st == ExecOrdered(a.heap, context_records, 1,
                                [BackendState EXCEPT !.ctr = a.ctr])
          IN /\ heap' = a.heap
             /\ store' = st.store
             /\ oid_counter' = st.ctr
             /\ backend_calls' = backend_calls + 1
             /\ attempted' = st.attempted
             /\ write_errors' = st.errors
             /\ applied' = st.applied
             /\ IF st.errors # <<>>
                THEN pc' = "raised" /\ error' = "BulkWriteError"
                ELSE pc' = "log" /\ UNCHANGED error
  /\ UNCHANGED <<key_properties, heap0, context_records, idx, bulk_operations,
                 skips, open_clients, result, flushes, completed, prev_store>>

\* Lines 82 and 88 when no server can be reached: the driver call raises
\* ServerSelectionTimeoutError and nothing is written.
BackendUnavailable ==
  /\ \/ /\ pc = "map"
        /\ idx > Len(context_records)
        /\ bulk_operations # <<>>
        /\ UNCHANGED <<heap, oid_counter>>
     \/ /\ pc = "insert"
        /\ context_records # <<>>
        /\ LET a == AssignIds(heap, context_records, 1, oid_counter)
           IN heap' = a.heap /\ oid_counter' = a.ctr
  /\ backend_calls' = backend_calls + 1
  /\ pc' = "raised"
  /\ error' = "ServerSelectionTimeoutError"
  /\ UNCHANGED <<key_properties, heap0, context_records, idx, bulk_operations,
                 skips, store, open_clients, attempted, write_errors, applied,
                 result, flushes, completed, prev_store>>

\* Lines 90-93: the summary line is logged and context["records"] is reset.
LogAndClear ==
  /\ pc = "log"
  /\ context_records' = <<>>
  /\ pc' = "done"
  /\ completed' = completed + 1
  /\ UNCHANGED <<key_properties, heap, heap0, idx, bulk_operations, skips,
                 store, oid_counter, open_clients, backend_calls, attempted,
                 write_errors, applied, result, error, flushes, prev_store>>

\* The caller hands the same record objects to process_batch again.
Resubmit ==
  /\ pc \in {"done", "raised"}
  /\ flushes < MaxFlushes
  /\ context_records' = [i \in 1..Len(heap) |-> i]
  /\ pc' = "idle"
  /\ UNCHANGED <<key_properties, heap, heap0, idx, bulk_operations, skips,
                 store, oid_counter, open_clients, backend_calls, attempted,
                 write_errors, applied, result, error, flushes, completed,
                 prev_store>>

\* The stream ends: MongoDbSink defines no clean-up of its own.
clean_up ==
  /\ pc \in {"done", "raised"}
  /\ pc' = "closed"
  /\ UNCHANGED <<key_properties, heap, heap0, context_records, idx,
                 bulk_operations, skips, store, oid_counter, open_clients,
                 backend_calls, attempted, write_errors, applied, result,
                 error, flushes, completed, prev_store>>

Next ==
  \/ Connect
  \/ MapRecord
  \/ BulkWrite
  \/ InsertMany
  \/ BackendUnavailable
  \/ LogAndClear
  \/ Resubmit
  \/ clean_up

Spec == Init /\ [][Next]_vars


\* ------------------------------------------------------------ properties
Max(S) == CHOOSE x \in S : \A y \in S : y <= x

Keyed == Len(key_properties) > 0
KeyIs(f) == Keyed /\ key_properties[1] = f

\* Number of operations / warnings produced for the record object i.
OpsFor(i) == Cardinality({k \in 1..Len(bulk_operations) : bulk_operations[k].src = i})
SkipsFor(i) == Cardinality({k \in 1..Len(skips) : skips[k].src = i})

\* A string that is not 24 hexadecimal characters.
InvalidIdString(val) ==
  /\ val.t = "str"
  /\ \/ Len(val.v) # OidHexLen
     \/ \E k \in 1..Len(val.v) : val.v[k] \notin HexDigits

\* C1: once the records of a batch are mapped, each record has exactly one
\* write operation or exactly one skip warning, never both, never neither:
\* on the keyed path every record the loop has passed has one of the two
\* and operations + warnings = records at the end of the loop; without a
\* key every record is one document of the insert_many, none is skipped.
C1_EveryRecordAccountedOnce ==
  /\ Keyed =>
       /\ \A i \in 1..Len(heap) :
            OpsFor(i) + SkipsFor(i) = IF i < idx THEN 1 ELSE 0
       /\ idx > Len(heap) => Len(bulk_operations) + Len(skips) = Len(heap)
  /\ (~Keyed /\ pc \in {"log", "raised"} /\ error # "TypeError") =>
       /\ skips = <<>>
       /\ \A i \in 1..Len(heap) : "_id" \in DOMAIN heap[i]
       /\ pc = "log" => applied = context_records

C1_Witness ==
  /\ Keyed
  /\ idx > Len(heap)
  /\ Len(skips) >= 1
  /\ Len(bulk_operations) >= 1

\* C2: with key _id, a record whose _id is an invalid identifier string
\* gets no operation and exactly one warning naming that value; the loop
\* goes on over all later records, and process_batch raises only from the
\* bulk write of the records that were not skipped.
C2_InvalidIdSkippedNotFatal ==
  KeyIs("_id") =>
    /\ \A i \in 1..Len(heap) :
         (i < idx /\ InvalidIdString(Get(heap0[i], "_id"))) =>
           /\ OpsFor(i) = 0
           /\ SkipsFor(i) = 1
           /\ \E k \in 1..Len(skips) :
                skips[k].src = i /\ skips[k].value = Get(heap0[i], "_id")
    /\ pc \in {"log", "done", "raised", "closed"} =>
         /\ idx = Len(heap) + 1
         /\ \A j \in 1..Len(heap) : OpsFor(j) + SkipsFor(j) = 1
    /\ pc = "raised" =>
         /\ bulk_operations # <<>>
         /\ error \in {"BulkWriteError", "ServerSelectionTimeoutError"}

C2_Witness ==
  /\ KeyIs("_id")
  /\ pc = "done"
  /\ \E i \in 1..Len(heap) :
       /\ Get(heap0[i], "_id") = StrVal(NotAnId)
       /\ SkipsFor(i) = 1
       /\ \E j \in 1..Len(heap) : j > i /\ OpsFor(j) = 1

\* C3: flushing an empty batch returns normally, with zero counts and no
\* request to the backend, with or without a key.
C3_EmptyFlushIsNoOp ==
  (Len(heap) = 0 /\ pc \in {"done", "raised"}) =>
    /\ pc = "done"
    /\ error = "none"
    /\ backend_calls = 0
    /\ result = ZeroResult
    /\ skips = <<>>

\* C4: after a flush, whether its writes succeeded, were skipped or were
\* reported as failed by the backend, context["records"] is empty.
C4_BufferEmptyAfterFlush ==
  (pc = "done" \/ (pc = "raised" /\ error = "BulkWriteError")) =>
    context_records = <<>>

\* C5: when the backend reports failed operations while the connection is
\* available, the flush does not raise and nothing is executed twice.
C5_PartialFailureNotFatal ==
  write_errors # <<>> =>
    /\ pc # "raised"
    /\ error = "none"
    /\ attempted <= Len(heap)

\* C6: once a non-empty batch has reached the backend, every operation of
\* it was executed, on the upsert path and on the insert path.
C6_EveryOperationExecuted ==
  (backend_calls > 0 /\ error # "ServerSelectionTimeoutError"
     /\ pc \in {"log", "raised"}) =>
    attempted = IF Keyed THEN Len(bulk_operations) ELSE Len(heap)

\* C7: a second submission of the same keyed batch (both ran to the end,
\* the store was empty at first) leaves the stored documents as the first
\* left them and reports every operation as updated, none as upserted.
C7_ResubmissionIdempotent ==
  (Keyed /\ flushes = 2 /\ completed = 2 /\ pc = "done") =>
    /\ store = prev_store
    /\ result.upserted = 0
    /\ result.updated = Len(bulk_operations)

\* C8: when the stream's processing is over, every client that was
\* created has been closed.
C8_ConnectionsReleased ==
  pc = "closed" => open_clients = 0

\* C9: with key _id, a record whose _id is null or absent is skipped: no
\* operation for it, one warning for it.
C9_NullIdSkipped ==
  (KeyIs("_id") /\ flushes = 1) =>
    \A i \in 1..Len(heap0) :
      (i < idx /\ Get(heap0[i], "_id") = Null) =>
        OpsFor(i) = 0 /\ SkipsFor(i) = 1

\* The values of the key field sku the batch carries, and who carries them.
KeyValues == {heap0[i]["sku"] : i \in {j \in 1..Len(heap0) : "sku" \in DOMAIN heap0[j]}}
Carriers(val) == {i \in 1..Len(heap0) : "sku" \in DOMAIN heap0[i] /\ heap0[i]["sku"] = val}
DocsFor(val) == {d \in store : Matches(d, "sku", val)}

\* C10 as stated: after the first submission with key sku, a key value
\* carried by several records has exactly one document, with the fields of
\* the last of these records in batch order.
C10_LastInBatchOrderWins ==
  (KeyIs("sku") /\ flushes = 1 /\ pc \in {"log", "done"}) =>
    \A val \in KeyValues :
      Cardinality(Carriers(val)) >= 2 =>
        /\ Cardinality(DocsFor(val)) = 1
        /\ \A d \in DocsFor(val) :
             \A f \in DOMAIN heap0[Max(Carriers(val))] :
               f \in DOMAIN d /\ d[f] = heap0[Max(Carriers(val))][f]

\* C10 amended: after the first submission with key sku (returned, or
\* raised BulkWriteError), a key value carried by several records has at
\* most one document, exactly one when no operation was rejected, and that
\* document has the fields of the record whose operation took effect last
\* in the order of execution.
C10_LastExecutedWins ==
  (KeyIs("sku") /\ flushes = 1
     /\ (pc \in {"log", "done"} \/ (pc = "raised" /\ error = "BulkWriteError"))) =>
    \A val \in KeyValues :
      Cardinality(Carriers(val)) >= 2 =>
        LET eff == {k \in 1..Len(applied) : applied[k] \in Carriers(val)} IN
        /\ Cardinality(DocsFor(val)) <= 1
        /\ write_errors = <<>> => Cardinality(DocsFor(val)) = 1
        /\ eff # {} =>
             /\ DocsFor(val) # {}
             /\ \A d \in DocsFor(val) :
                  \A f \in DOMAIN heap0[applied[Max(eff)]] :
                    f \in DOMAIN d /\ d[f] = heap0[applied[Max(eff)]][f]

C10_Witness ==
  /\ KeyIs("sku")
  /\ flushes = 1
  /\ pc = "done"
  /\ heap0 = <<[sku |-> A1, price |-> Ten], [sku |-> A1, price |-> Twelve]>>
  /\ applied = <<2, 1>>
  /\ \E d \in store : d["sku"] = A1 /\ d["price"] = Ten

====
